---- MODULE Spec2Model ----
(***************************************************************************)
(* Model of the Conan recipe CPythonTool (src/conanfile.py): the option    *)
(* set, the phases the package manager invokes (config_options, configure, *)
(* generate, build, package, package_info) and the filesystem the          *)
(* zero-copy mirror is built in.                                           *)
(***************************************************************************)
EXTENDS Naturals, Sequences, FiniteSets, TLC

VARIABLES
    pc,             \* the phase the package manager invokes next
    settings,       \* self.settings: os, arch, compiler.cppstd
    options,        \* self.options: the effective option set (a function)
    dep_options,    \* self.options["zlib"]: the options set on the dependency
    generators,     \* what generate() wrote: CPPFLAGS and generator files
    profile,        \* the invocation's inputs, fixed at its start
    fs,             \* the filesystem: absolute path -> node
    output,         \* self.output: the messages recorded
    ops,            \* the os / shutil calls made
    commands,       \* the build and scan commands invoked
    cpp_info,       \* self.cpp_info
    conf_info,      \* self.conf_info
    buildenv_info,  \* self.buildenv_info
    runenv_info,    \* self.runenv_info
    error,          \* the exception that aborted the invocation, or "none"
    scan_exit,      \* exit codes of the vulnerability scans run (none or one)
    args,           \* source, dest, is_directory of the symlink step run on its own
    calls,          \* how often that symlink step was invoked
    fs_after_first  \* the filesystem as the first of those calls left it

vars == <<pc, settings, options, dep_options, generators, profile, fs, output, ops, commands, cpp_info,
          conf_info, buildenv_info, runenv_info, error, scan_exit, args, calls,
          fs_after_first>>

----------------------------------------------------------------------------
(* Paths.  A path string is a record: absolute or not, and its components. *)

Path(isabs, parts) == [abs |-> isabs, parts |-> parts]

NoPath == Path(TRUE, <<>>)

\* os.path.join(p, name) for a relative single-component name
join(p, name) == [p EXCEPT !.parts = Append(@, name)]

\* the working directory of the process
cwd == <<"build">>

RECURSIVE normparts(_, _)
\* os.path.normpath on components: drops ".", lets ".." remove a component
normparts(parts, acc) ==
    IF parts = <<>> THEN acc
    ELSE LET h == Head(parts) IN
         IF h = "." THEN normparts(Tail(parts), acc)
         ELSE IF h = ".."
              THEN normparts(Tail(parts),
                             IF acc = <<>> THEN <<>>
                             ELSE SubSeq(acc, 1, Len(acc) - 1))
              ELSE normparts(Tail(parts), Append(acc, h))

\* os.path.abspath(p): joined to the working directory, then normalised
abspath(p) ==
    Path(TRUE, normparts(IF p.abs THEN p.parts ELSE cwd \o p.parts, <<>>))

\* the directory that holds p
dirname(parts) == SubSeq(parts, 1, Len(parts) - 1)

\* where the operating system finds the target of a link stored in `linkdir`
linkdest(linkdir, target) ==
    normparts(IF target.abs THEN target.parts ELSE linkdir \o target.parts, <<>>)

package_folder == Path(TRUE, <<"pkg">>)

toolchain_path == "cpython-toolchain"

Items == <<"bin", "lib", "include">>

----------------------------------------------------------------------------
(* Filesystem nodes.                                                       *)

Absent == [kind |-> "absent", files |-> {}, target |-> NoPath]
Dir(files) == [kind |-> "dir", files |-> files, target |-> NoPath]
File(files) == [kind |-> "file", files |-> files, target |-> NoPath]
Link(target) == [kind |-> "link", files |-> {}, target |-> target]

Key(p) == abspath(p).parts

Node(f, k) == IF k \in DOMAIN f THEN f[k] ELSE Absent

\* os.path.islink(p)
islink(f, p) == Node(f, Key(p)).kind = "link"

RECURSIVE follow(_, _, _)
\* the node a path resolves to, links followed (at most `fuel` of them)
follow(f, k, fuel) ==
    LET n == Node(f, k) IN
    IF n.kind = "link"
    THEN IF fuel = 0 THEN Absent
         ELSE follow(f, linkdest(dirname(k), n.target), fuel - 1)
    ELSE n

MaxLinkDepth == 2

\* os.path.exists(p): true for a file or directory, links followed
exists(f, p) == follow(f, Key(p), MaxLinkDepth).kind # "absent"

\* os.readlink(p)
readlink(f, p) == Node(f, Key(p)).target

Put(f, k, n) == [x \in DOMAIN f \cup {k} |-> IF x = k THEN n ELSE Node(f, x)]

----------------------------------------------------------------------------
(* The calls of os and shutil the recipe makes.  A call works on a record  *)
(* w = [fs, output, ops, raised]; raised names the exception it ended with.*)

warn(w, msg) == [w EXCEPT !.output = Append(@, [level |-> "warn", msg |-> msg])]

info(w, msg) == [w EXCEPT !.output = Append(@, [level |-> "info", msg |-> msg])]

Op(name, k, ok) == [op |-> name, path |-> k, ok |-> ok, target_is_directory |-> FALSE]

\* os.unlink(dest)
os_unlink(w, dest) ==
    [w EXCEPT !.fs = Put(@, Key(dest), Absent),
              !.ops = Append(@, Op("unlink", Key(dest), TRUE))]

\* os.makedirs(p)
os_makedirs(w, p) ==
    [w EXCEPT !.fs = Put(@, Key(p), Dir({})),
              !.ops = Append(@, Op("makedirs", Key(p), TRUE))]

\* os.symlink(source, dest): raises OSError when the platform refuses the
\* link (granted = FALSE) or the destination already exists
os_symlink(w, source, dest, target_is_directory, granted) ==
    LET done == granted /\ Node(w.fs, Key(dest)).kind = "absent" IN
    [w EXCEPT !.fs = IF done THEN Put(@, Key(dest), Link(source)) ELSE @,
              !.ops = Append(@, [Op("symlink", Key(dest), done) EXCEPT
                                   !.target_is_directory = target_is_directory]),
              !.raised = IF done THEN "none" ELSE "OSError"]

\* shutil.copytree(source, dest, dirs_exist_ok=True)
copytree(w, source, dest) ==
    LET s == follow(w.fs, Key(source), MaxLinkDepth)
        d == Node(w.fs, Key(dest))
        done == s.kind = "dir" /\ d.kind \in {"absent", "dir"}
    IN [w EXCEPT !.fs = IF done THEN Put(@, Key(dest), Dir(d.files \cup s.files))
                        ELSE @,
                 !.ops = Append(@, Op("copytree", Key(dest), done)),
                 !.raised = IF done THEN "none" ELSE "OSError"]

\* shutil.copy2(source, dest)
copy2(w, source, dest) ==
    LET s == follow(w.fs, Key(source), MaxLinkDepth)
        d == Node(w.fs, Key(dest))
        done == s.kind = "file" /\ d.kind \in {"absent", "file"}
    IN [w EXCEPT !.fs = IF done THEN Put(@, Key(dest), File(s.files)) ELSE @,
                 !.ops = Append(@, Op("copy2", Key(dest), done)),
                 !.raised = IF done THEN "none" ELSE "OSError"]

SkipMsg == "exists and is not a symlink, skipping"
CreatedMsg == "Created symlink"
FailedMsg == "Symlink failed, using copy fallback"
CopyMsg == "Used copy instead of symlink (not zero-copy)"

\* try_symlink with an except handler that only warns: no copy is made
try_symlink_no_copy(w, os, source, dest, is_directory, granted) ==
    LET s == os_symlink(w, source, dest, is_directory, granted) IN
    IF s.raised = "none"
    THEN info(s, CreatedMsg)
    ELSE warn(warn([s EXCEPT !.raised = "none"], FailedMsg), CopyMsg)

\* lines 84-99: the try block and its except OSError handler
try_symlink(w, os, source, dest, is_directory, granted) ==
    LET s == IF os = "Windows"
             THEN IF is_directory
                  THEN os_symlink(w, source, dest, TRUE, granted)
                  ELSE os_symlink(w, source, dest, FALSE, granted)
             ELSE os_symlink(w, source, dest, is_directory, granted)
    IN
    IF s.raised = "none"
    THEN info(s, CreatedMsg)
    ELSE LET h == warn([s EXCEPT !.raised = "none"], FailedMsg)
             c == IF is_directory THEN copytree(h, source, dest)
                  ELSE copy2(h, source, dest)
         IN IF c.raised = "none" THEN warn(c, CopyMsg) ELSE c

\* _create_symlink without the "already correct" return: a link is always
\* removed and made again
_create_symlink_relinks(w, os, source, dest, is_directory, granted) ==
    IF exists(w.fs, dest) \/ islink(w.fs, dest)
    THEN IF islink(w.fs, dest)
         THEN try_symlink(os_unlink(w, dest), os, source, dest, is_directory,
                          granted)
         ELSE warn(w, SkipMsg)
    ELSE try_symlink(w, os, source, dest, is_directory, granted)

\* _create_symlink that removes whatever is at the destination, a real file
\* or directory included
_create_symlink_overwrites(w, os, source, dest, is_directory, granted) ==
    IF exists(w.fs, dest) \/ islink(w.fs, dest)
    THEN IF islink(w.fs, dest) /\ abspath(source) = abspath(readlink(w.fs, dest))
         THEN w
         ELSE try_symlink(os_unlink(w, dest), os, source, dest, is_directory,
                          granted)
    ELSE try_symlink(w, os, source, dest, is_directory, granted)

\* CPythonTool._create_symlink(source, dest, is_directory)
_create_symlink(w, os, source, dest, is_directory, granted) ==
    IF exists(w.fs, dest) \/ islink(w.fs, dest)
    THEN IF islink(w.fs, dest)
         THEN LET current_target == readlink(w.fs, dest)
                  source_abs == abspath(source)
                  dest_abs == abspath(current_target)
              IN IF source_abs = dest_abs
                 THEN w
                 ELSE try_symlink(os_unlink(w, dest), os, source, dest,
                                  is_directory, granted)
         ELSE warn(w, SkipMsg)
    ELSE try_symlink(w, os, source, dest, is_directory, granted)

----------------------------------------------------------------------------
(* The recipe's declarations.                                              *)

\* CPythonTool.options: each option and its legal values
OptionDomain ==
    [shared |-> BOOLEAN, fips |-> BOOLEAN, optimize |-> {"0", "1", "2", "3"},
     enable_zero_copy |-> BOOLEAN]

\* CPythonTool.default_options
default_options ==
    [shared |-> FALSE, fips |-> FALSE, optimize |-> "2", enable_zero_copy |-> TRUE]

\* the option assignments a profile can make
OptionValues ==
    [shared : OptionDomain.shared, fips : OptionDomain.fips,
     optimize : OptionDomain.optimize,
     enable_zero_copy : OptionDomain.enable_zero_copy]

\* the values of settings.os the recipe's branches name
OSValues == {"Linux", "FreeBSD", "Windows", "Macos"}

ArchValues == {"x86_64", "armv8"}

\* compiler.cppstd, oldest first
CppStds == <<98, 11, 17>>

min_cppstd == 11

StdIndex(v) == CHOOSE i \in 1..Len(CppStds) : CppStds[i] = v

\* check_min_cppstd(self, 11): the setting is older than the minimum
cppstd_too_old(v) == StdIndex(v) < StdIndex(min_cppstd)

\* rm_safe that removes nothing
rm_safe_keeps(o, name) == o

\* self.options.rm_safe(name)
rm_safe(o, name) == [k \in DOMAIN o \ {name} |-> o[k]]

\* hasattr(self.options, name): whether the option is in the effective set
has_option(o, name) == name \in DOMAIN o

NoError == [type |-> "none", what |-> "none"]
Raise(type, what) == [type |-> type, what |-> what]

\* what reading self.options.<name> raises when the option is not in the set
OptionError(name) == Raise("ConanException", <<"option", name>>)

toolchain_root == join(package_folder, toolchain_path)

\* the executable's name with the platform test left out
interpreter_posix(os) == "python"

\* the executable's name by platform (lines 206 and 236)
interpreter(os) == IF os = "Windows" THEN "python.exe" ELSE "python"

\* CPythonTool._get_python_executable
_get_python_executable(os, o) ==
    LET python_name == interpreter(os) IN
    IF o.enable_zero_copy
    THEN join(join(join(package_folder, toolchain_path), "bin"), python_name)
    ELSE join(join(package_folder, "bin"), python_name)

----------------------------------------------------------------------------
(* The phases.  The package manager invokes them in order; a phase that    *)
(* raises ends the invocation (pc = "failed").  When it packages a build   *)
(* tree that already exists (profile.prebuilt) it goes from configure      *)
(* straight to package: source, generate and build are not invoked.        *)

Abort(e) == pc' = "failed" /\ error' = e

World == [fs |-> fs, output |-> output, ops |-> ops, raised |-> "none"]

\* CPythonTool.config_options
config_options ==
    /\ pc = "config_options"
    /\ options' = IF profile.cross_building THEN rm_safe(options, "fips")
                  ELSE options
    /\ IF cppstd_too_old(settings.cppstd)
       THEN Abort(Raise("ConanInvalidConfiguration", <<"cppstd">>))
       ELSE pc' = "configure" /\ error' = error
    /\ UNCHANGED <<settings, dep_options, generators, profile, fs, output, ops,
                   commands, cpp_info, conf_info, buildenv_info, runenv_info,
                   scan_exit, args, calls, fs_after_first>>

\* CPythonTool.configure
configure ==
    /\ pc = "configure"
    /\ dep_options' = IF options.shared /\ settings.os = "Windows"
                      THEN [dep_options EXCEPT !.zlib = [shared |-> TRUE]]
                      ELSE dep_options
    /\ pc' = IF profile.prebuilt THEN "package" ELSE "source"
    /\ UNCHANGED <<settings, options, generators, profile, fs, output, ops,
                   commands, cpp_info, conf_info, buildenv_info, runenv_info,
                   error, scan_exit, args, calls, fs_after_first>>

Cmd(strategy, cmd, cmdargs) == [strategy |-> strategy, cmd |-> cmd, args |-> cmdargs]

\* CPythonTool.source: get() raises when the download or the unpacking fails
source ==
    /\ pc = "source"
    /\ \E fetched \in BOOLEAN :
          /\ commands' = Append(commands, Cmd("source", "get", <<>>))
          /\ IF fetched THEN pc' = "generate" /\ error' = error
             ELSE Abort(Raise("ConanException", <<"download">>))
    /\ UNCHANGED <<settings, options, dep_options, generators, profile, fs,
                   output, ops, cpp_info, conf_info, buildenv_info,
                   runenv_info, scan_exit, args, calls, fs_after_first>>

\* CPythonTool.generate
generate ==
    /\ pc = "generate"
    /\ LET version_flag == <<"-DCPYTHON_VERSION">> IN
       IF ~has_option(options, "fips")
       THEN /\ Abort(OptionError("fips"))
            /\ generators' = [generators EXCEPT !.CPPFLAGS = @ \o version_flag]
            /\ UNCHANGED conf_info
       ELSE /\ generators' =
                [CPPFLAGS |-> generators.CPPFLAGS \o version_flag \o
                              (IF options.fips THEN <<"-DFIPS_MODE">> ELSE <<>>),
                 files |-> generators.files \cup {"VirtualBuildEnv"} \cup
                           (IF settings.os \in {"Linux", "FreeBSD"}
                            THEN {"AutotoolsDeps"} ELSE {})]
            /\ conf_info' = ("tools.python:optimize" :> options.optimize) @@ conf_info
            /\ pc' = "build"
            /\ error' = error
    /\ UNCHANGED <<settings, options, dep_options, profile, fs, output, ops,
                   commands, cpp_info, buildenv_info, runenv_info, scan_exit,
                   args, calls, fs_after_first>>

\* the arguments of autotools.configure (lines 121-131)
ConfigureArgs(o, arch) ==
    <<"--prefix=/usr/local", "--enable-optimizations", "--with-ensurepip=no",
      IF o.shared THEN "--enable-shared=" ELSE "--enable-shared=--disable-shared",
      "--enable-loadable-sqlite-extensions">>
    \o (IF arch = "armv8" THEN <<"--with-system-expat">> ELSE <<>>)
    \o (IF o.fips THEN <<"--enable-fips">> ELSE <<>>)

\* build() with the elif chain broken: the Windows test starts a new if, so
\* its else branch runs for every other target
BuildCommands_fallthrough(os, o, arch) ==
    (IF os \in {"Linux", "FreeBSD"}
     THEN <<Cmd("autotools", "configure", ConfigureArgs(o, arch)),
            Cmd("autotools", "make", <<>>), Cmd("autotools", "install", <<>>)>>
     ELSE <<>>)
    \o (IF os = "Windows"
        THEN <<Cmd("windows", "build.bat", <<>>)>>
        ELSE <<Cmd("macos", "configure", <<"--enable-framework", "--enable-shared">>),
               Cmd("macos", "make", <<>>), Cmd("macos", "make install", <<>>)>>)

\* the commands build() invokes for the target, in order (lines 118-144)
BuildCommands(os, o, arch) ==
    (IF os \in {"Linux", "FreeBSD"}
     THEN <<Cmd("autotools", "configure", ConfigureArgs(o, arch)),
            Cmd("autotools", "make", <<>>), Cmd("autotools", "install", <<>>)>>
     ELSE IF os = "Windows"
          THEN <<Cmd("windows", "build.bat", <<>>)>>
          ELSE IF os = "Macos"
               THEN <<Cmd("macos", "configure", <<"--enable-framework", "--enable-shared">>),
                      Cmd("macos", "make", <<>>), Cmd("macos", "make install", <<>>)>>
               ELSE <<>>)

\* CPythonTool._generate_sbom
_generate_sbom(cmds) ==
    IF profile.can_run THEN Append(cmds, Cmd("sbom", "syft packages", <<>>)) ELSE cmds

BuiltMsg == "CPython built successfully"

\* CPythonTool.build: the commands run until one exits non-zero (failed_at),
\* then the message, then the read of options.enable_sbom
build ==
    /\ pc = "build"
    /\ LET all == BuildCommands(settings.os, options, settings.arch)
           autotools == settings.os \in {"Linux", "FreeBSD"}
       IN
       IF autotools /\ ~has_option(options, "fips")
       THEN Abort(OptionError("fips")) /\ UNCHANGED <<commands, output>>
       ELSE \E failed_at \in 0..Len(all) :
               IF failed_at > 0
               THEN /\ commands' = commands \o SubSeq(all, 1, failed_at)
                    /\ Abort(Raise("ConanException", <<"command">>))
                    /\ UNCHANGED output
               ELSE /\ output' = Append(output, [level |-> "info", msg |-> BuiltMsg])
                    /\ IF ~has_option(options, "enable_sbom")
                       THEN /\ commands' = commands \o all
                            /\ Abort(OptionError("enable_sbom"))
                       ELSE /\ commands' = IF options.enable_sbom
                                           THEN _generate_sbom(commands \o all)
                                           ELSE commands \o all
                            /\ pc' = "package"
                            /\ error' = error
    /\ UNCHANGED <<settings, options, dep_options, generators, profile, fs,
                   ops, cpp_info, conf_info, buildenv_info, runenv_info,
                   scan_exit, args, calls, fs_after_first>>

\* the three copy() calls of package() (lines 162-175): each creates its
\* destination only if the build tree holds a file its pattern matches
stage(w, os, artifacts) ==
    LET bin == Key(join(package_folder, "bin"))
        lib == Key(join(package_folder, "lib"))
        binaries == IF "binary" \in artifacts THEN {interpreter(os)} ELSE {}
        libraries == IF "libraries" \in artifacts
                     THEN {IF os = "Windows" THEN "python.pyd" ELSE "libpython.so"}
                     ELSE {}
        stdlib == IF "stdlib" \in artifacts THEN {"python3.12"} ELSE {}
        f1 == IF binaries = {} THEN w.fs
              ELSE Put(w.fs, bin, Dir(Node(w.fs, bin).files \cup binaries))
        f2 == IF libraries \cup stdlib = {} THEN f1
              ELSE Put(f1, lib, Dir(Node(f1, lib).files \cup libraries \cup stdlib))
    IN [w EXCEPT !.fs = f2]

RECURSIVE mirror(_, _, _, _)
\* the loop of lines 184-188, from item i on; granted[i] tells whether the
\* platform lets the i-th link be created
mirror(w, os, i, granted) ==
    IF i > Len(Items) \/ w.raised # "none" THEN w
    ELSE LET source_item == join(package_folder, Items[i])
             dest_item == join(toolchain_root, Items[i])
         IN mirror(IF exists(w.fs, source_item)
                   THEN _create_symlink(w, os, source_item, dest_item, TRUE,
                                        granted[i])
                   ELSE w,
                   os, i + 1, granted)

\* lines 177-188 with the test of enable_zero_copy left out
zero_copy_always(w, os, o, granted) ==
    mirror(IF ~exists(w.fs, toolchain_root)
           THEN os_makedirs(w, toolchain_root) ELSE w,
           os, 1, granted)

\* lines 177-188
zero_copy(w, os, o, granted) ==
    IF o.enable_zero_copy
    THEN mirror(IF ~exists(w.fs, toolchain_root)
                THEN os_makedirs(w, toolchain_root) ELSE w,
                os, 1, granted)
    ELSE w

\* lines 190-191
copy_sbom(w, o) ==
    IF has_option(o, "enable_sbom") /\ o.enable_sbom
    THEN [w EXCEPT !.fs = Put(@, Key(join(package_folder, "sbom.json")),
                              File({"sbom"}))]
    ELSE w

\* self.run(cmd) with the exit code ignored
run_ignores(exit_code) == FALSE

\* self.run(cmd): raises when the command exits non-zero
run_raises(exit_code) == exit_code # 0

\* CPythonTool.package.  self.dependencies["trivy"] raises KeyError unless
\* the profile adds the scanner as a tool requirement (profile.trivy): the
\* recipe itself requires zlib only
package ==
    /\ pc = "package"
    /\ \E granted \in [1..Len(Items) -> BOOLEAN], exit_code \in {0, 1} :
          LET w == copy_sbom(zero_copy(stage(World, settings.os, profile.artifacts),
                                       settings.os, options, granted),
                             options)
          IN /\ fs' = w.fs
             /\ output' = w.output
             /\ ops' = w.ops
             /\ IF w.raised # "none"
                THEN Abort(Raise(w.raised, <<"copy">>)) /\ UNCHANGED <<commands, scan_exit>>
                ELSE IF ~profile.can_run
                THEN pc' = "package_info" /\ UNCHANGED <<commands, scan_exit, error>>
                ELSE IF ~profile.trivy
                THEN Abort(Raise("KeyError", <<"dependency", "trivy">>))
                     /\ UNCHANGED <<commands, scan_exit>>
                ELSE /\ commands' = Append(commands,
                                           Cmd("scan", "trivy fs", <<"--exit-code", "1">>))
                     /\ scan_exit' = Append(scan_exit, exit_code)
                     /\ IF run_raises(exit_code)
                        THEN Abort(Raise("ConanException", <<"command">>))
                        ELSE pc' = "package_info" /\ error' = error
    /\ UNCHANGED <<settings, options, dep_options, generators, profile,
                   cpp_info, conf_info, buildenv_info, runenv_info, args, calls,
                   fs_after_first>>

\* CPythonTool.package_info
package_info ==
    /\ pc = "package_info"
    /\ LET bin_dir == join(package_folder, "bin")
           python_exe == join(bin_dir, interpreter(settings.os))
           home == "PYTHONHOME" :> package_folder
           toolchain_bin == join(toolchain_root, "bin")
           mirror_env == IF options.enable_zero_copy
                         THEN ("PYTHON_ROOT" :> toolchain_root) @@
                              ("PATH" :> <<toolchain_bin>>)
                         ELSE <<>>
           fips_env == IF has_option(options, "fips") /\ options.fips
                       THEN "PYTHON_FIPS" :> "1" ELSE <<>>
       IN /\ cpp_info' = [pkg_name |-> "python", bindirs |-> <<bin_dir>>,
                          libdirs |-> <<join(package_folder, "lib")>>]
          /\ conf_info' = ("tools.python:python" :> python_exe) @@
                          ("tools.python:optimize" :> options.optimize) @@ conf_info
          /\ buildenv_info' = fips_env @@ mirror_env @@ home @@ buildenv_info
          /\ runenv_info' = mirror_env @@ home @@ runenv_info
          /\ IF has_option(options, "fips")
             THEN pc' = "done" /\ error' = error
             ELSE Abort(OptionError("fips"))
    /\ UNCHANGED <<settings, options, dep_options, generators, profile, fs,
                   output, ops, commands, scan_exit, args, calls, fs_after_first>>

----------------------------------------------------------------------------
(* The invocation.                                                         *)

Elsewhere == Path(TRUE, <<"elsewhere">>)

\* the package folder before package() ran: empty, or holding the mirror a
\* previous packaging left
BaseFs == (Key(package_folder) :> Dir({})) @@ (Key(Elsewhere) :> Dir({"other"}))

MirrorBin == Key(join(toolchain_root, "bin"))

PackageFolders ==
    {BaseFs} \cup
    {(MirrorBin :> n) @@ (Key(toolchain_root) :> Dir({})) @@ BaseFs :
        n \in {Link(join(package_folder, "bin")), Dir({"stale"})}}

\* what the build tree holds when package() copies from it: everything, all
\* but a file named as the interpreter pattern asks, or nothing
Artifacts == {{"binary", "libraries", "stdlib"}, {"libraries", "stdlib"}, {}}

\* the optimize levels the profiles assign: the default and the highest
OptimizeInputs == {"2", "3"}

\* the compiler.cppstd values the profiles assign: below and at the minimum
CppStdInputs == {98, 11}

Profiles ==
    [cross_building : BOOLEAN, can_run : BOOLEAN, trivy : BOOLEAN,
     prebuilt : BOOLEAN, artifacts : Artifacts,
     options : {o \in OptionValues : o.optimize \in OptimizeInputs}]

NoArgs == [source |-> NoPath, dest |-> NoPath, is_directory |-> FALSE]

Init ==
    /\ pc = "config_options"
    /\ settings \in [os : OSValues, arch : ArchValues,
                     cppstd : CppStdInputs]
    /\ profile \in Profiles
    /\ options = profile.options
    /\ dep_options = [zlib |-> [shared |-> FALSE]]
    /\ generators = [CPPFLAGS |-> <<>>, files |-> {}]
    /\ fs \in PackageFolders
    /\ output = <<>>
    /\ ops = <<>>
    /\ commands = <<>>
    /\ cpp_info = [pkg_name |-> "", bindirs |-> <<>>, libdirs |-> <<>>]
    /\ conf_info = <<>>
    /\ buildenv_info = <<>>
    /\ runenv_info = <<>>
    /\ error = NoError
    /\ scan_exit = <<>>
    /\ args = NoArgs
    /\ calls = 0
    /\ fs_after_first = fs

Next ==
    \/ config_options
    \/ configure
    \/ source
    \/ generate
    \/ build
    \/ package
    \/ package_info

Spec == Init /\ [][Next]_vars

----------------------------------------------------------------------------
(* The symlink step on its own: _create_symlink invoked repeatedly with    *)
(* the same source and destination, from every state of the destination.   *)

MaxCalls == 2

Gone == Path(TRUE, <<"gone">>)

\* what the destination can be before the call: absent, a link to the source
\* (spelled as the source, spelled otherwise, or relative to the link's
\* directory), a link to another directory, a broken link, a real directory
\* or a real file
DestStates(item) ==
    {Absent,
     Link(join(package_folder, item)),
     Link(Path(TRUE, <<"pkg", ".", item>>)),
     Link(Path(FALSE, <<"..", item>>)),
     Link(Elsewhere),
     Link(Gone),
     Dir({"stale"}),
     File({"stale"})}

SourceStates == {Dir({"python"}), File({"python"})}

SymlinkInit ==
    /\ pc = "symlink_step"
    /\ settings \in [os : OSValues, arch : {"x86_64"}, cppstd : {min_cppstd}]
    /\ profile = [cross_building |-> FALSE, can_run |-> FALSE, trivy |-> FALSE,
                  prebuilt |-> TRUE, artifacts |-> {}, options |-> default_options]
    /\ options = default_options
    /\ dep_options = [zlib |-> [shared |-> FALSE]]
    /\ generators = [CPPFLAGS |-> <<>>, files |-> {}]
    /\ \E i \in 1..Len(Items), s \in SourceStates :
          /\ args = [source |-> join(package_folder, Items[i]),
                     dest |-> join(toolchain_root, Items[i]),
                     is_directory |-> (s.kind = "dir")]
          /\ \E d \in DestStates(Items[i]) :
                fs = (Key(join(toolchain_root, Items[i])) :> d) @@
                     (Key(join(package_folder, Items[i])) :> s) @@
                     (Key(toolchain_root) :> Dir({})) @@ BaseFs
    /\ output = <<>>
    /\ ops = <<>>
    /\ commands = <<>>
    /\ cpp_info = [pkg_name |-> "", bindirs |-> <<>>, libdirs |-> <<>>]
    /\ conf_info = <<>>
    /\ buildenv_info = <<>>
    /\ runenv_info = <<>>
    /\ error = NoError
    /\ scan_exit = <<>>
    /\ calls = 0
    /\ fs_after_first = fs

\* one invocation of self._create_symlink(source, dest, is_directory)
symlink_step ==
    /\ pc = "symlink_step"
    /\ calls < MaxCalls
    /\ \E granted \in BOOLEAN :
          LET w == _create_symlink(World, settings.os, args.source, args.dest,
                                   args.is_directory, granted)
          IN /\ fs' = w.fs
             /\ output' = w.output
             /\ ops' = w.ops
             /\ fs_after_first' = IF calls = 0 THEN w.fs ELSE fs_after_first
             /\ IF w.raised = "none" THEN UNCHANGED <<pc, error>>
                ELSE Abort(Raise(w.raised, <<"copy">>))
    /\ calls' = calls + 1
    /\ UNCHANGED <<settings, options, dep_options, generators, profile,
                   commands, cpp_info, conf_info, buildenv_info, runenv_info,
                   scan_exit, args>>

SymlinkNext == symlink_step

SymlinkSpec == SymlinkInit /\ [][SymlinkNext]_vars

DestNode(f) == Node(f, Key(args.dest))

SourceNode(f) == follow(f, Key(args.source), MaxLinkDepth)

\* the calls of os / shutil the step just taken made
NewOps == {ops'[i] : i \in (Len(ops) + 1)..Len(ops')}

\* the messages the step just taken recorded
NewOutput == {output'[i] : i \in (Len(output) + 1)..Len(output')}

Warning(msg) == [level |-> "warn", msg |-> msg]

\* C1: invoking the symlink step again with the same source and destination
\* leaves the filesystem as the first call left it, whatever the destination
\* was at first and whether link creation succeeds or falls back to a copy.
C1_SecondCallChangesNothing ==
    calls >= 2 => fs = fs_after_first

\* two calls were made and the first one fell back to a copy
C1_Witness ==
    /\ calls = 2
    /\ \E i \in DOMAIN ops : ops[i].op \in {"copytree", "copy2"} /\ ops[i].ok
    /\ DestNode(fs).kind \in {"dir", "file"}

\* C2: a call whose destination exists and is not a symbolic link records
\* the skip warning, makes no call that creates a link or copies, and leaves
\* the filesystem, the destination included, as it was.
C2_RealDestinationSkipped ==
    [][(calls' = calls + 1 /\ DestNode(fs).kind \in {"dir", "file"})
        => /\ fs' = fs
           /\ ops' = ops
           /\ output' = Append(output, Warning(SkipMsg))
           /\ error' = error]_vars

\* a call found a real directory or file at the destination and skipped it
C2_Witness ==
    /\ calls >= 1
    /\ ops = <<>>
    /\ DestNode(fs) \in {Dir({"stale"}), File({"stale"})}
    /\ \E i \in DOMAIN output : output[i] = Warning(SkipMsg)

\* C3: a call in which os.symlink raised OSError ends with the destination
\* a copy of the source (a directory copied by copytree, a file by copy2),
\* with the not-zero-copy warning recorded and no exception propagated.
C3_FallbackCopiesSource ==
    [][(calls' = calls + 1 /\ \E o \in NewOps : o.op = "symlink" /\ ~o.ok)
        => /\ DestNode(fs') = (IF args.is_directory THEN Dir(SourceNode(fs).files)
                               ELSE File(SourceNode(fs).files))
           /\ \E o \in NewOps :
                 o.op = (IF args.is_directory THEN "copytree" ELSE "copy2") /\ o.ok
           /\ Warning(CopyMsg) \in NewOutput
           /\ error' = NoError
           /\ pc' # "failed"]_vars

\* link creation was refused and the destination now holds the source's files
C3_Witness ==
    /\ calls >= 1
    /\ \E i \in DOMAIN ops : ops[i].op = "symlink" /\ ~ops[i].ok
    /\ DestNode(fs).kind \in {"dir", "file"}
    /\ DestNode(fs).files = SourceNode(fs).files

----------------------------------------------------------------------------
(* Properties of the invocation (specification Spec).                      *)

Published(env, name) == name \in DOMAIN env

\* package_info ran: it sets the interpreter path first
InfoPublished == Published(conf_info, "tools.python:python")

\* C4: when the vulnerability scan exits with code 1, package() raises and
\* the invocation is aborted: package_info is never reached and nothing is
\* published for consumers.
C4_ScanFailureAborts ==
    scan_exit = <<1>> =>
        /\ pc = "failed"
        /\ error = Raise("ConanException", <<"command">>)
        /\ ~InfoPublished
        /\ DOMAIN buildenv_info = {}
        /\ DOMAIN runenv_info = {}
        /\ cpp_info.bindirs = <<>>

\* the scan ran on a staged package and exited with code 1
C4_Witness ==
    /\ scan_exit = <<1>>
    /\ pc = "failed"
    /\ exists(fs, join(package_folder, "bin"))

\* C5: with enable_zero_copy set and packaging succeeded, every mirror path
\* package_info publishes (PYTHON_ROOT and the PATH entry) exists in the
\* package folder when it is published.
C5_PublishedMirrorExists ==
    (pc = "done" /\ options.enable_zero_copy) =>
        /\ exists(fs, buildenv_info["PYTHON_ROOT"])
        /\ \A i \in DOMAIN buildenv_info["PATH"] :
              exists(fs, buildenv_info["PATH"][i])

\* C6: on Windows the published interpreter path ends in python.exe and lies
\* in the package's bin directory, or in the mirror's bin directory when
\* enable_zero_copy is set (as does the path _get_python_executable gives);
\* the published optimize level is the optimize option.
C6_WindowsInterpreterPath ==
    LET InBin(p) ==
            /\ p.parts[Len(p.parts)] = "python.exe"
            /\ \/ dirname(p.parts) = Key(join(package_folder, "bin"))
               \/ /\ options.enable_zero_copy
                  /\ dirname(p.parts) = Key(join(toolchain_root, "bin"))
    IN /\ (settings.os = "Windows" /\ InfoPublished) =>
              /\ InBin(conf_info["tools.python:python"])
              /\ InBin(_get_python_executable(settings.os, options))
       /\ Published(conf_info, "tools.python:optimize") =>
              conf_info["tools.python:optimize"] = profile.options.optimize

\* package_info ran on Windows with optimize = "3"
C6_Witness ==
    /\ pc = "done"
    /\ settings.os = "Windows"
    /\ profile.options.optimize = "3"
    /\ conf_info["tools.python:python"] =
          Path(TRUE, <<"pkg", "bin", "python.exe">>)

MirrorKeys ==
    {Key(toolchain_root)} \cup {Key(join(toolchain_root, Items[i])) : i \in 1..Len(Items)}

\* C7: with enable_zero_copy = false no step creates or changes the
\* cpython-toolchain directory, and package_info publishes the primary bin
\* and lib directories only: no PYTHON_ROOT and no PATH entry.
C7_NoMirrorWithoutZeroCopy ==
    /\ [](~profile.options.enable_zero_copy =>
            /\ ~Published(buildenv_info, "PYTHON_ROOT")
            /\ ~Published(buildenv_info, "PATH")
            /\ ~Published(runenv_info, "PYTHON_ROOT")
            /\ ~Published(runenv_info, "PATH")
            /\ cpp_info.bindirs \in {<<>>, <<join(package_folder, "bin")>>}
            /\ cpp_info.libdirs \in {<<>>, <<join(package_folder, "lib")>>})
    /\ [][~profile.options.enable_zero_copy =>
            /\ \A k \in MirrorKeys : Node(fs', k) = Node(fs, k)
            /\ \A o \in NewOps : o.op \notin {"makedirs", "symlink", "copytree"}]_vars

\* package_info ran with enable_zero_copy = false on a clean package folder
C7_Witness ==
    /\ pc = "done"
    /\ ~profile.options.enable_zero_copy
    /\ ~exists(fs, toolchain_root)
    /\ exists(fs, join(package_folder, "bin"))
    /\ cpp_info.bindirs = <<join(package_folder, "bin")>>

\* C8: after config_options, fips is absent from the option set in every
\* phase when cross-building is detected, and present with its configured
\* value when it is not.
C8_FipsRemovedWhenCrossBuilding ==
    pc # "config_options" =>
        IF profile.cross_building
        THEN ~has_option(options, "fips")
        ELSE has_option(options, "fips") /\ options.fips = profile.options.fips

\* a cross-build reached a phase after config_options with fips requested
C8_Witness ==
    /\ profile.cross_building
    /\ profile.options.fips
    /\ pc = "package_info"
    /\ DOMAIN options = {"shared", "optimize", "enable_zero_copy"}

BuildStrategies == {"autotools", "windows", "macos"}

StrategiesUsed ==
    {commands[i].strategy : i \in DOMAIN commands} \cap BuildStrategies

\* C9: build() invokes the commands of one strategy only, the one of the
\* target OS, and of exactly one once its commands have all run.
C9_OneBuildStrategy ==
    /\ Cardinality(StrategiesUsed) <= 1
    /\ StrategiesUsed \subseteq
          {IF settings.os \in {"Linux", "FreeBSD"} THEN "autotools"
           ELSE IF settings.os = "Windows" THEN "windows" ELSE "macos"}
    /\ (\E i \in DOMAIN output : output[i].msg = BuiltMsg) =>
          Cardinality(StrategiesUsed) = 1

\* build() ran all the commands of the macOS strategy
C9_Witness ==
    /\ settings.os = "Macos"
    /\ \E i \in DOMAIN output : output[i].msg = BuiltMsg
    /\ StrategiesUsed = {"macos"}
    /\ Len(commands) = 4

\* C10: no phase reads an option that is not in the effective option set, so
\* no invocation ends with an option-access error.
C10_NoOptionAccessError ==
    \A name \in {"fips", "enable_sbom"} : error # OptionError(name)

====
